---------------------------- MODULE Spec2Model ----------------------------
(***************************************************************************)
(* A model of iceflow/ui.py: the IceFlowUI object, its event handlers and  *)
(* the derivation of the query/order parameters.                           *)
(*                                                                         *)
(* ui     the IceFlowUI instance: a record of its attributes (a widget is  *)
(*        represented by its .value, the draw control by its               *)
(*        last_draw['geometry']).                                          *)
(* heap   the Python lists build_parameters creates, by address: the       *)
(*        'datasets' entry of a returned dict and self.datasets_iceflow    *)
(*        hold the same list object.                                       *)
(* event  the last call handled: its arguments, what it returned or        *)
(*        raised, what it printed and the calls it made on IceflowClient.  *)
(* prev   the call handled before that one: its name, the attribute value  *)
(*        it replaced and, for build_parameters, the value it returned     *)
(*        (which the caller still holds) as it read then.                  *)
(***************************************************************************)
EXTENDS Integers, Sequences, FiniteSets, TLC

VARIABLES ui, heap, event, prev

vars == <<ui, heap, event, prev>>

-----------------------------------------------------------------------------
(* Bounds of the model.                                                    *)

\* longest ring of points handed to bounding_box
MaxRing == 3
\* most entries in the SelectMultiple value
MaxSel == 2

-----------------------------------------------------------------------------
(* Python values.                                                          *)

PyNone == [t |-> "NoneType"]
Unset == [t |-> "unset"]
PyStr(s) == [t |-> "str", v |-> s]
PyDict(d) == [t |-> "dict", d |-> d]
PyList(a) == [t |-> "list", ref |-> a]
Polygon(ring) == [t |-> "Polygon", coordinates |-> <<ring>>]
NoExc == "none"

\* addresses of list objects
Addr == {"a1", "a2", "a3", "a4"}

\* coordinate values a drawn vertex may take
Coords == {-10, 0, 65}
Points == Coords \X Coords
Rings == UNION {[1..n -> Points] : n \in 1..MaxRing}

\* what the draw control produces: closed rings (rectangle, polygon)
DrawnShapes ==
    { <<  <<-10, 0>>, <<-10, 65>>, <<0, 65>>, <<0, 0>>, <<-10, 0>>  >>,
      <<  <<65, 65>>, <<0, -10>>, <<-10, 65>>, <<65, 65>>  >> }

\* a sample of the slider's options, pd.date_range(1993-01-01, now, freq='D')
slider_dates == << <<1993, 1, 1>>, <<2015, 1, 1>>, <<2015, 12, 31>> >>
\* a SelectionRangeSlider value: (lower, upper) with lower index <= upper index
DateRanges ==
    { <<slider_dates[p[1]], slider_dates[p[2]]>> :
        p \in { q \in (1..Len(slider_dates)) \X (1..Len(slider_dates)) : q[1] <= q[2] } }

projection_options == {"global", "south", "north"}
dataset_options == {"ILATM1B", "BLATM1B", "GLAH06", "ILVIS2"}
itrf_options == {PyNone, PyStr("ITRF2000"), PyStr("ITRF2008"), PyStr("ITRF2014")}
is2_options == {"None", "ATL03", "ATL06", "ATL07", "ATL08"}
DatasetSelections == UNION {[1..n -> dataset_options] : n \in 0..MaxSel}
EpochTexts == {"", "None", "2008.1"}
UsernameTexts == {"", "user", "guest"}
PasswordTexts == {"", "secret"}
EmailTexts == {"", "user@example.org"}
MapOutputs == {"horizontal", "vertical"}
\* trait notifications a Dropdown selection delivers to an observer of all names
DropdownTraits == <<"index", "label", "value">>

\* what IceflowClient, an external collaborator, may do with a call
ClientOutcomes ==
    { [kind |-> "return", val |-> [t |-> "opaque", v |-> "result"]],
      [kind |-> "return", val |-> PyNone],
      [kind |-> "raise", exc |-> "ConnectionError"] }

\* parameter dicts a notebook caller passes explicitly
SuppliedParams ==
    { PyDict([start |-> "2010-01-01", end |-> "2010-12-31", bbox |-> "0,60,5,65",
              datasets |-> [t |-> "literal", items |-> <<"GLAH06">>]]),
      PyDict([start |-> "2019-01-01", end |-> "2019-02-01", bbox |-> "-50,65,-40,70",
              datasets |-> [t |-> "literal", items |-> <<"ATL06", "ILVIS2">>],
              itrf |-> PyStr("ITRF2014")]) }

NoSelectionMessage == PyStr("You need to select an area using the bbox or polygon tools")
CredentialsMessage == PyStr("enter your NASA Earth login credentials")

-----------------------------------------------------------------------------
(* Conversions.                                                            *)

Digit(n) ==
    CASE n = 0 -> "0" [] n = 1 -> "1" [] n = 2 -> "2" [] n = 3 -> "3" [] n = 4 -> "4"
      [] n = 5 -> "5" [] n = 6 -> "6" [] n = 7 -> "7" [] n = 8 -> "8" [] n = 9 -> "9"

RECURSIVE NatStr(_)
NatStr(n) == IF n < 10 THEN Digit(n) ELSE NatStr(n \div 10) \o Digit(n % 10)

\* str() of a Python int, as an f-string renders it
str(i) == IF i < 0 THEN "-" \o NatStr(-i) ELSE NatStr(i)

RECURSIVE ZeroPad(_, _)
ZeroPad(s, width) == IF Len(s) >= width THEN s ELSE ZeroPad("0" \o s, width)

\* date.strftime('%Y-%m-%d')
strftime(date) ==
    ZeroPad(NatStr(date[1]), 4) \o "-" \o ZeroPad(NatStr(date[2]), 2) \o "-"
        \o ZeroPad(NatStr(date[3]), 2)

RECURSIVE min(_)
min(xs) ==
    IF Len(xs) = 1 THEN xs[1]
    ELSE LET m == min(Tail(xs)) IN IF xs[1] <= m THEN xs[1] ELSE m

RECURSIVE max(_)
max(xs) ==
    IF Len(xs) = 1 THEN xs[1]
    ELSE LET m == max(Tail(xs)) IN IF xs[1] >= m THEN xs[1] ELSE m

-----------------------------------------------------------------------------
(* The heap of list objects.                                               *)

NewAddr(h) == CHOOSE a \in Addr : a \notin DOMAIN h

Refs(v) ==
    IF v.t = "list" THEN {v.ref}
    ELSE IF v.t = "dict" /\ v.d.datasets.t = "list" THEN {v.d.datasets.ref}
    ELSE {}

\* the value an observer reads through v: list references followed
Value(h, v) ==
    IF v.t = "list" THEN h[v.ref]
    ELSE IF v.t = "dict" /\ v.d.datasets.t = "list"
         THEN [k \in DOMAIN v.d |-> IF k = "datasets" THEN h[v.d.datasets.ref] ELSE v.d[k]]
    ELSE IF v.t = "dict"
         THEN [k \in DOMAIN v.d |-> IF k = "datasets" THEN v.d.datasets.items ELSE v.d[k]]
    ELSE v

\* what a method call comes to: the object after it, the value returned or the
\* exception raised, the lines printed and the calls made on self.iceflow
Result(s, h, ret, raised, calls, stdout) ==
    [self |-> s, heap |-> h, ret |-> ret, raised |-> raised, calls |-> calls,
     stdout |-> stdout]

-----------------------------------------------------------------------------
(* IceFlowUI.                                                              *)

\* the attributes after __init__; self.end_date is datetime.now(), here the
\* slider's last day
ConstructorUI ==
    [ current_projection |-> "north",
      credentials |-> PyNone,
      start_date |-> slider_dates[1],
      end_date |-> slider_dates[Len(slider_dates)],
      username |-> "",
      password |-> "",
      email |-> "",
      projection |-> "north",
      dataset |-> <<"ILATM1B">>,
      itrf |-> PyNone,
      epoch |-> "",
      is2 |-> "None",
      dates_range |-> <<slider_dates[1], slider_dates[Len(slider_dates)]>>,
      dc |-> PyNone,
      map_output |-> Unset,
      datasets_iceflow |-> Unset ]

\* bounding_box with the fault of taking the lower corner's y from the x values
bounding_box_min_of_x(points) ==
    LET x_coordinates == [i \in 1..Len(points) |-> points[i][1]]
        y_coordinates == [i \in 1..Len(points) |-> points[i][2]]
    IN  << <<min(x_coordinates), min(x_coordinates)>>,
           <<max(x_coordinates), max(y_coordinates)>> >>

\* returns a bbox array for a given polygon
bounding_box(points) ==
    LET x_coordinates == [i \in 1..Len(points) |-> points[i][1]]
        y_coordinates == [i \in 1..Len(points) |-> points[i][2]]
    IN  << <<min(x_coordinates), min(y_coordinates)>>,
           <<max(x_coordinates), max(y_coordinates)>> >>

\* reset_datasets with the fault of creating the list once and appending to it
\* on every later call
keep_datasets(s, h) ==
    IF s.datasets_iceflow = Unset
    THEN LET a == NewAddr(h)
         IN  [self |-> [s EXCEPT !.datasets_iceflow = PyList(a)],
              heap |-> h @@ (a :> <<>>)]
    ELSE [self |-> s, heap |-> h]

\* self.datasets_iceflow = []: a new list object, bound to the attribute
reset_datasets(s, h) ==
    LET a == NewAddr(h)
    IN  [self |-> [s EXCEPT !.datasets_iceflow = PyList(a)], heap |-> h @@ (a :> <<>>)]

\* the f-string over the box's corners
format_bbox(geometry) ==
    LET coords == bounding_box(geometry.coordinates[1])
    IN  str(coords[1][1]) \o "," \o str(coords[1][2]) \o "," \o str(coords[2][1])
            \o "," \o str(coords[2][2])

\* appended_datasets with the fault of appending the ICESat-2 dataset first
appended_datasets_is2_first(s) ==
    (IF s.is2 # "None" THEN <<s.is2>> ELSE <<>>) \o s.dataset

\* the appends onto self.datasets_iceflow, in order
appended_datasets(s) ==
    s.dataset \o (IF s.is2 # "None" THEN <<s.is2>> ELSE <<>>)

\* optional_params with the fault of testing ITRF against the string only
optional_params_string_test_only(s) ==
    (IF s.itrf # PyStr("None") THEN [itrf |-> s.itrf] ELSE <<>>)
        @@ (IF s.epoch # "None" /\ s.epoch # "" THEN [epoch |-> s.epoch] ELSE <<>>)

\* the keys added to params after its literal
optional_params(s) ==
    (IF s.itrf # PyStr("None") /\ s.itrf # PyNone THEN [itrf |-> s.itrf] ELSE <<>>)
        @@ (IF s.epoch # "None" /\ s.epoch # "" THEN [epoch |-> s.epoch] ELSE <<>>)

\* no_selection with the fault of a missing return: the next line subscripts None
no_selection_falls_through(s, h) ==
    Result(s, h, PyNone, "TypeError", <<>>, <<NoSelectionMessage>>)

\* the branch taken when nothing is drawn: the message, then return None
no_selection(s, h) ==
    Result(s, h, PyNone, NoExc, <<>>, <<NoSelectionMessage>>)

\* returns the current selection parameters based on the widgets and map state
build_parameters(s, h) ==
    LET r == reset_datasets(s, h)
        list == r.self.datasets_iceflow
    IN  IF r.self.dc = PyNone
        THEN no_selection(r.self, r.heap)
        ELSE LET bbox == format_bbox(r.self.dc)
                 start == strftime(r.self.dates_range[1])
                 end == strftime(r.self.dates_range[2])
                 h2 == [r.heap EXCEPT ![list.ref] = @ \o appended_datasets(r.self)]
                 params == [start |-> start, end |-> end, bbox |-> bbox,
                            datasets |-> list] @@ optional_params(r.self)
             IN  Result(r.self, h2, PyDict(params), NoExc, <<>>, <<>>)

\* print(self.build_parameters())
get_parameters(s, h) ==
    LET b == build_parameters(s, h)
    IN  Result(b.self, b.heap, PyNone, NoExc, <<>>,
               b.stdout \o << [t |-> "repr", of |-> b.ret] >>)

\* a call on self.iceflow and what comes of it
client_call(s, h, fn, args, outcome, stdout) ==
    Result(s, h,
           IF outcome.kind = "return" THEN outcome.val ELSE PyNone,
           IF outcome.kind = "raise" THEN outcome.exc ELSE NoExc,
           << [fn |-> fn, args |-> args] >>, stdout)

\* query_cmr with the fault of deriving the parameters whatever it is given
query_cmr_always_builds(s, h, params, outcome) ==
    LET b == build_parameters(s, h)
    IN  client_call(b.self, b.heap, "query_cmr", <<b.ret>>, outcome, b.stdout)

query_cmr(s, h, params, outcome) ==
    LET b == IF params = PyNone THEN build_parameters(s, h)
             ELSE Result(s, h, params, NoExc, <<>>, <<>>)
    IN  client_call(b.self, b.heap, "query_cmr", <<b.ret>>, outcome, b.stdout)

place_data_orders(s, h, params, outcome) ==
    LET b == IF params = PyNone THEN build_parameters(s, h)
             ELSE Result(s, h, params, NoExc, <<>>, <<>>)
    IN  client_call(b.self, b.heap, "post_data_orders", <<b.ret>>, outcome, b.stdout)

authenticate(s, h, outcome) ==
    IF s.credentials = PyNone
    THEN Result(s, h, PyNone, "TypeError", <<>>, <<>>)
    ELSE client_call(s, h, "authenticate",
                     <<s.credentials.d.username, s.credentials.d.password,
                       s.credentials.d.email>>, outcome, <<>>)

\* set_credentials with the fault of 'or' for 'and' in its test
set_credentials_either_field(s, h, outcome) ==
    IF s.username # "" \/ s.password # ""
    THEN LET s1 == [s EXCEPT !.credentials =
                        PyDict([username |-> s.username, password |-> s.password,
                                email |-> s.email])]
             a == authenticate(s1, h, outcome)
         IN  Result(a.self, a.heap, PyNone, a.raised, a.calls, a.stdout)
    ELSE Result([s EXCEPT !.credentials = PyNone], h, PyNone, NoExc, <<>>,
                <<CredentialsMessage>>)

set_credentials(s, h, outcome) ==
    IF s.username # "" /\ s.password # ""
    THEN LET s1 == [s EXCEPT !.credentials =
                        PyDict([username |-> s.username, password |-> s.password,
                                email |-> s.email])]
             a == authenticate(s1, h, outcome)
         IN  Result(a.self, a.heap, PyNone, a.raised, a.calls, a.stdout)
    ELSE Result([s EXCEPT !.credentials = PyNone], h, PyNone, NoExc, <<>>,
                <<CredentialsMessage>>)

\* display_map with the fault of adding the existing DrawControl to the new map
display_map_same_control(s, h, map_output, hemisphere) ==
    Result([s EXCEPT !.map_output = PyStr(map_output)], h, PyNone, NoExc, <<>>, <<>>)

\* renders the map: a new DrawControl, whose last_draw has no geometry
display_map(s, h, map_output, hemisphere) ==
    Result([s EXCEPT !.map_output = PyStr(map_output), !.dc = PyNone],
           h, PyNone, NoExc, <<>>, <<>>)

hemisphere_change(s, h, change) ==
    IF change.type = "change" /\ change.name = "value"
    THEN IF s.map_output = Unset
         THEN Result(s, h, PyNone, "AttributeError", <<>>, <<>>)
         ELSE display_map(s, h, s.map_output.v, s.projection)
    ELSE Result(s, h, PyNone, NoExc, <<>>, <<>>)

dates_changed(s, h, change) ==
    IF change.type = "change" /\ change.name = "value"
    THEN LET s1 == [s EXCEPT !.start_date = change.new[1], !.end_date = change.new[2]]
         IN  IF s1.map_output = Unset
             THEN Result(s1, h, PyNone, "AttributeError", <<>>, <<>>)
             ELSE display_map(s1, h, s1.map_output.v, PyNone)
    ELSE Result(s, h, PyNone, NoExc, <<>>, <<>>)

\* the projection Dropdown notifies its observer once per changed trait
RECURSIVE notify_all(_, _, _, _)
notify_all(s, h, names, new) ==
    IF names = <<>> THEN Result(s, h, PyNone, NoExc, <<>>, <<>>)
    ELSE LET r == hemisphere_change(s, h, [type |-> "change", name |-> Head(names),
                                           new |-> new])
         IN  IF r.raised # NoExc THEN r ELSE notify_all(r.self, r.heap, Tail(names), new)

-----------------------------------------------------------------------------
(* The state machine.                                                      *)

NoPrev == [op |-> "none", before |-> PyNone, ret |-> PyNone, val |-> PyNone]

InitEvent ==
    [op |-> "__init__", args |-> <<>>, ret |-> PyNone, raised |-> NoExc,
     calls |-> <<>>, stdout |-> <<>>, before |-> PyNone]

\* list objects still referenced: by the object, by what the last call returned
\* or handed to the client, by what the call before it returned
Live(u, e, p) ==
    Refs(u.datasets_iceflow) \cup Refs(e.ret)
        \cup UNION { Refs(e.calls[i].args[1]) : i \in {j \in DOMAIN e.calls : e.calls[j].fn # "authenticate"} }
        \cup Refs(p.ret)

\* one call handled to completion: op with args came to r; before is the
\* attribute value the handler replaced
Handle(op, args, r, before) ==
    /\ ui' = r.self
    /\ event' = [op |-> op, args |-> args, ret |-> r.ret, raised |-> r.raised,
                 calls |-> r.calls, stdout |-> r.stdout, before |-> before]
    /\ prev' = [op |-> event.op, before |-> event.before,
                ret |-> IF event.op = "build_parameters" THEN event.ret ELSE PyNone,
                val |-> IF event.op = "build_parameters" THEN Value(heap, event.ret)
                        ELSE PyNone]
    /\ heap' = [a \in (DOMAIN r.heap) \cap Live(ui', event', prev') |-> r.heap[a]]

Init ==
    /\ ui = ConstructorUI
    /\ heap = <<>>
    /\ event = InitEvent
    /\ prev = NoPrev

\* the notebook calls ui.display_map('horizontal' | 'vertical')
DisplayMap ==
    \E where \in MapOutputs :
        Handle("display_map", <<where>>, display_map(ui, heap, where, PyNone), ui.dc)

\* the user draws a rectangle or polygon on the displayed map
Draw ==
    \E ring \in DrawnShapes :
        /\ ui.map_output # Unset
        /\ ui.dc # Polygon(ring)
        /\ Handle("draw", <<ring>>,
                  Result([ui EXCEPT !.dc = Polygon(ring)], heap, PyNone, NoExc, <<>>, <<>>),
                  ui.dc)

\* the user moves the date slider: the widget takes the value, then notifies
DatesSlider ==
    \E new \in DateRanges :
        /\ new # ui.dates_range
        /\ Handle("dates_changed", <<new>>,
                  dates_changed([ui EXCEPT !.dates_range = new], heap,
                                [type |-> "change", name |-> "value", new |-> new]),
                  ui.dc)

\* the user picks another hemisphere
HemisphereSelect ==
    \E new \in projection_options :
        /\ new # ui.projection
        /\ Handle("hemisphere_change", <<new>>,
                  notify_all([ui EXCEPT !.projection = new], heap, DropdownTraits, new),
                  ui.dc)

TypeUsername ==
    \E text \in UsernameTexts :
        /\ text # ui.username
        /\ Handle("type", <<"username", text>>,
                  Result([ui EXCEPT !.username = text], heap, PyNone, NoExc, <<>>, <<>>),
                  PyNone)

TypePassword ==
    \E text \in PasswordTexts :
        /\ text # ui.password
        /\ Handle("type", <<"password", text>>,
                  Result([ui EXCEPT !.password = text], heap, PyNone, NoExc, <<>>, <<>>),
                  PyNone)

TypeEmail ==
    \E text \in EmailTexts :
        /\ text # ui.email
        /\ Handle("type", <<"email", text>>,
                  Result([ui EXCEPT !.email = text], heap, PyNone, NoExc, <<>>, <<>>),
                  PyNone)

SetCredentials ==
    \E outcome \in ClientOutcomes :
        Handle("set_credentials", <<outcome>>, set_credentials(ui, heap, outcome),
               ui.credentials)

BuildParameters ==
    Handle("build_parameters", <<>>, build_parameters(ui, heap), PyNone)

GetParameters ==
    Handle("get_parameters", <<>>, get_parameters(ui, heap), PyNone)

QueryCmr ==
    \E params \in {PyNone} \cup SuppliedParams, outcome \in ClientOutcomes :
        Handle("query_cmr", <<params, outcome>>, query_cmr(ui, heap, params, outcome),
               PyNone)

PlaceDataOrders ==
    \E params \in {PyNone} \cup SuppliedParams, outcome \in ClientOutcomes :
        Handle("place_data_orders", <<params, outcome>>,
               place_data_orders(ui, heap, params, outcome), PyNone)

\* the map, the selection it yields and the calls that use it
NextSelection ==
    \/ DisplayMap
    \/ Draw
    \/ DatesSlider
    \/ HemisphereSelect
    \/ BuildParameters
    \/ GetParameters
    \/ QueryCmr
    \/ PlaceDataOrders

\* the credential fields and their button
NextCredentials ==
    \/ TypeUsername
    \/ TypePassword
    \/ TypeEmail
    \/ SetCredentials

\* the derivation alone
NextBuild ==
    \/ BuildParameters
    \/ GetParameters

Next ==
    \/ NextSelection
    \/ NextCredentials

\* a displayed UI whose selection widgets hold any of their values
InitParams ==
    /\ \E g \in {PyNone} \cup {Polygon(r) : r \in DrawnShapes}, dr \in DateRanges,
          ds \in DatasetSelections, i \in itrf_options, e \in EpochTexts,
          s2 \in is2_options :
            ui = [ConstructorUI EXCEPT !.map_output = PyStr("horizontal"), !.dc = g,
                                       !.dates_range = dr, !.start_date = dr[1],
                                       !.end_date = dr[2], !.dataset = ds, !.itrf = i,
                                       !.epoch = e, !.is2 = s2]
    /\ heap = <<>>
    /\ event = InitEvent
    /\ prev = NoPrev

\* a displayed UI whose draw control holds any ring of points
InitBox ==
    /\ \E r \in Rings :
            ui = [ConstructorUI EXCEPT !.map_output = PyStr("horizontal"),
                                       !.dc = Polygon(r)]
    /\ heap = <<>>
    /\ event = InitEvent
    /\ prev = NoPrev

\* Spec is the whole machine. The credential handlers and the selection
\* handlers read and write disjoint attributes, so each group is also run on
\* its own from the constructor's state; SpecParams and SpecBox start
\* build_parameters from every selection, resp. every ring.
Spec == Init /\ [][Next]_vars
SpecSelection == Init /\ [][NextSelection]_vars
SpecCredentials == Init /\ [][NextCredentials]_vars
SpecParams == InitParams /\ [][NextBuild]_vars
SpecBox == InitBox /\ [][NextBuild]_vars

-----------------------------------------------------------------------------
(* Properties.                                                             *)

Dispatchers == {"query_cmr", "place_data_orders"}
ClientMethod(op) == IF op = "query_cmr" THEN "query_cmr" ELSE "post_data_orders"

\* the decimal numerals of the coordinate values, written out
Decimal == (-10 :> "-10") @@ (0 :> "0") @@ (65 :> "65")

\* an attribute as an observer reads it: absent, or the items of its list
Attribute(h, v) ==
    IF v = Unset THEN [t |-> "unset"] ELSE [t |-> "list", items |-> h[v.ref]]

\* C1: query_cmr and place_data_orders called without params while nothing
\* is drawn make no call on the client.
C1_FailedBuildNotDispatched ==
    (event.op \in Dispatchers /\ event.args[1] = PyNone /\ ui.dc = PyNone)
        => event.calls = <<>>

\* C2: build_parameters called while no geometry is drawn prints the
\* no-selection message and returns None, whatever the other widgets hold.
C2_NoGeometryNoParameters ==
    (event.op = "build_parameters" /\ ui.dc = PyNone)
        => /\ event.ret = PyNone
           /\ event.raised = NoExc
           /\ event.stdout = <<NoSelectionMessage>>

C2_Witness ==
    /\ event.op = "build_parameters"
    /\ ui.dc = PyNone
    /\ event.ret = PyNone
    /\ ui.itrf = PyStr("ITRF2008")
    /\ ui.epoch = "2008.1"
    /\ ui.is2 = "ATL07"
    /\ ui.dataset = <<"GLAH06", "ILVIS2">>
    /\ ui.dates_range = <<slider_dates[2], slider_dates[3]>>

\* C3: in a dict build_parameters returns, the key itrf is present only if
\* the ITRF value is none of None, 'None' and '', and the key epoch only if
\* the epoch text is neither 'None' nor ''.
C3_OptionalKeysOmitted ==
    (event.op = "build_parameters" /\ event.ret.t = "dict")
        => /\ "itrf" \in DOMAIN event.ret.d
                => ui.itrf \notin {PyNone, PyStr("None"), PyStr("")}
           /\ "epoch" \in DOMAIN event.ret.d => ui.epoch \notin {"None", ""}

C3_Witness ==
    /\ event.op = "build_parameters"
    /\ event.ret.t = "dict"
    /\ ui.itrf = PyNone
    /\ ui.epoch = "None"
    /\ DOMAIN event.ret.d = {"start", "end", "bbox", "datasets"}

\* C4: the datasets of a returned dict are the selected datasets in selection
\* order, repeats kept, then the ICESat-2 dataset as the last item exactly
\* when it is not 'None': also on a repeated call.
C4_DatasetsInSelectionOrder ==
    (event.op = "build_parameters" /\ event.ret.t = "dict")
        => LET datasets == heap[event.ret.d.datasets.ref]
               n == Len(ui.dataset)
           IN  /\ Len(datasets) = n + (IF ui.is2 # "None" THEN 1 ELSE 0)
               /\ \A i \in 1..n : datasets[i] = ui.dataset[i]
               /\ ui.is2 # "None" => datasets[n + 1] = ui.is2

C4_Witness ==
    /\ event.op = "build_parameters"
    /\ prev.op = "build_parameters"
    /\ event.ret.t = "dict"
    /\ ui.dataset = <<"ILVIS2", "ILVIS2">>
    /\ ui.is2 = "ATL06"
    /\ heap[event.ret.d.datasets.ref] = <<"ILVIS2", "ILVIS2", "ATL06">>

\* C5: for a non-empty ring bounding_box returns ((min x, min y), (max x,
\* max y)): each bound is attained, the lower corner is below the upper one,
\* every point lies in the box, a ring of one repeated point yields that point
\* twice; build_parameters writes the box as minX,minY,maxX,maxY.
C5_BoundingBox ==
    (event.op = "build_parameters" /\ ui.dc # PyNone)
        => LET ring == ui.dc.coordinates[1]
               box == bounding_box(ring)
               I == 1..Len(ring)
           IN  /\ box[1][1] <= box[2][1]
               /\ box[1][2] <= box[2][2]
               /\ \A i \in I : /\ box[1][1] <= ring[i][1] /\ ring[i][1] <= box[2][1]
                               /\ box[1][2] <= ring[i][2] /\ ring[i][2] <= box[2][2]
               /\ \E i \in I : ring[i][1] = box[1][1]
               /\ \E i \in I : ring[i][2] = box[1][2]
               /\ \E i \in I : ring[i][1] = box[2][1]
               /\ \E i \in I : ring[i][2] = box[2][2]
               /\ (\A i \in I : ring[i] = ring[1]) => box = <<ring[1], ring[1]>>
               /\ event.ret.t = "dict"
               /\ event.ret.d.bbox =
                    Decimal[box[1][1]] \o "," \o Decimal[box[1][2]] \o ","
                        \o Decimal[box[2][1]] \o "," \o Decimal[box[2][2]]

C5_Witness ==
    /\ event.op = "build_parameters"
    /\ ui.dc = Polygon(<< <<65, 0>>, <<-10, 65>>, <<0, -10>> >>)
    /\ event.ret.t = "dict"
    /\ event.ret.d.bbox = "-10,-10,65,65"

\* C6: a build_parameters call that directly follows another returns a value
\* equal to the one the first call returned, and the first call's value still
\* reads as it did.
C6_Idempotent ==
    (event.op = "build_parameters" /\ prev.op = "build_parameters")
        => /\ Value(heap, event.ret) = prev.val
           /\ Value(heap, prev.ret) = prev.val

C6_Witness ==
    /\ event.op = "build_parameters"
    /\ prev.op = "build_parameters"
    /\ event.ret.t = "dict"
    /\ prev.ret.t = "dict"
    /\ event.ret.d.datasets # prev.ret.d.datasets
    /\ ui.is2 = "ATL03"
    /\ Value(heap, prev.ret).datasets = <<"BLATM1B", "ILATM1B", "ATL03">>

\* C7: build_parameters leaves every attribute of the object as it was.
C7_NoAttributeChanges ==
    [][event'.op = "build_parameters"
         => /\ [ui' EXCEPT !.datasets_iceflow = Unset]
                = [ui EXCEPT !.datasets_iceflow = Unset]
            /\ Attribute(heap', ui'.datasets_iceflow)
                = Attribute(heap, ui.datasets_iceflow)]_vars

\* C8: query_cmr and place_data_orders derive the parameters only when none
\* are given. Given params, the object is left as it was, nothing is printed,
\* the client gets exactly those params in one call and its result (or its
\* exception) is what the caller gets; without params the client gets what
\* build_parameters made in this call.
C8_ParamsPassedThrough ==
    [][event'.op \in Dispatchers
         => LET params == event'.args[1]
                outcome == event'.args[2]
            IN  /\ Len(event'.calls) = 1
                /\ event'.calls[1].fn = ClientMethod(event'.op)
                /\ outcome.kind = "return"
                        => event'.ret = outcome.val /\ event'.raised = NoExc
                /\ outcome.kind = "raise" => event'.raised = outcome.exc
                /\ params # PyNone
                        => /\ event'.calls[1].args = <<params>>
                           /\ ui' = ui
                           /\ event'.stdout = <<>>
                /\ (params = PyNone /\ ui.dc # PyNone)
                        => /\ event'.calls[1].args[1].t = "dict"
                           /\ event'.calls[1].args[1].d.datasets = ui'.datasets_iceflow
                           /\ ui'.datasets_iceflow # ui.datasets_iceflow]_vars

C8_Witness ==
    /\ event.op = "place_data_orders"
    /\ event.args[1] \in SuppliedParams
    /\ event.calls = << [fn |-> "post_data_orders", args |-> <<event.args[1]>>] >>
    /\ event.ret = [t |-> "opaque", v |-> "result"]
    /\ ui.dc # PyNone
    /\ ui.datasets_iceflow = Unset

\* C9: a date-range or hemisphere change leaves the draw control without a
\* geometry; only a drawing gives it one; and while it has none,
\* build_parameters returns None with the no-selection message, as do
\* get_parameters, query_cmr and place_data_orders called without params.
C9_RerenderDiscardsGeometry ==
    [][/\ event'.op \in {"dates_changed", "hemisphere_change"} => ui'.dc = PyNone
       /\ (ui.dc = PyNone /\ event'.op # "draw") => ui'.dc = PyNone
       /\ (ui.dc = PyNone /\ event'.op = "build_parameters")
            => event'.ret = PyNone /\ event'.stdout = <<NoSelectionMessage>>
       /\ (/\ ui.dc = PyNone
           /\ \/ event'.op = "get_parameters"
              \/ event'.op \in Dispatchers /\ event'.args[1] = PyNone)
            => Head(event'.stdout) = NoSelectionMessage]_vars

C9_Witness ==
    /\ prev.op \in {"dates_changed", "hemisphere_change"}
    /\ prev.before # PyNone
    /\ event.op = "build_parameters"
    /\ event.ret = PyNone
    /\ event.stdout = <<NoSelectionMessage>>

\* C10: the stored credentials are None or hold a non-empty username and a
\* non-empty password. set_credentials with both fields filled stores the
\* three field values and calls the client's authenticate once, with them;
\* with either field empty it stores None and makes no call.
C10_Credentials ==
    /\ \/ ui.credentials = PyNone
       \/ ui.credentials.d.username # "" /\ ui.credentials.d.password # ""
    /\ event.op = "set_credentials"
        => /\ (ui.username = "" \/ ui.password = "")
                => ui.credentials = PyNone /\ event.calls = <<>>
           /\ (ui.username # "" /\ ui.password # "")
                => /\ ui.credentials =
                        PyDict([username |-> ui.username, password |-> ui.password,
                                email |-> ui.email])
                   /\ event.calls =
                        << [fn |-> "authenticate",
                            args |-> <<ui.credentials.d.username,
                                       ui.credentials.d.password,
                                       ui.credentials.d.email>>] >>

C10_Witness ==
    /\ event.op = "set_credentials"
    /\ event.before # PyNone
    /\ ui.username = "user"
    /\ ui.password = ""
    /\ ui.credentials = PyNone
    /\ event.calls = <<>>

=============================================================================
